---- MODULE Spec2Model ----
(***************************************************************************)
(* Operator evaluation of the interpreter (src/interp/operator.go).        *)
(*                                                                         *)
(* Integers are modelled at their real widths.  A machine integer is a     *)
(* sequence of bits, least significant bit first, so that 32 and 64 bit    *)
(* values are exact.  A reflect.Value of an integer Kind holds the 64 bit  *)
(* pattern that Value.Int() / Value.Uint() return (sign extended for the   *)
(* signed Kinds, zero extended for the unsigned ones).                     *)
(***************************************************************************)
EXTENDS Integers, Sequences, FiniteSets, TLC

\* ------------------------------------------------------------------ bounds
\* Operand values of every integer Kind are taken at distance 0..MaxDelta
\* from 0, from -1, from the Kind's minimum and from its maximum.
MaxDelta == 1
\* Shift counts range over 0..MaxShift and over W-1, W, W+1 for the widths W.
MaxShift == 3

\* ------------------------------------------------------------------ Kinds
SignedKinds == {"Int", "Int8", "Int16", "Int32", "Int64"}

UnsignedKinds == {"Uint", "Uint8", "Uint16", "Uint32", "Uint64", "Uintptr"}

IntegerKinds == SignedKinds \cup UnsignedKinds

FloatKinds == {"Float32", "Float64"}

ComplexKinds == {"Complex64", "Complex128"}

UntypedKinds == {"UntypedBool", "UntypedInt", "UntypedRune", "UntypedFloat",
                 "UntypedComplex", "UntypedString", "UntypedNil"}

\* Size in bits of Go's int, uint and uintptr on the 64 bit build.
WordSize == 64

\* Bit width of the Go type a case of an operator's switch casts to.
Width(k) ==
    CASE k \in {"Int8", "Uint8"} -> 8
      [] k \in {"Int16", "Uint16"} -> 16
      [] k \in {"Int32", "Uint32"} -> 32
      [] k \in {"Int64", "Uint64"} -> 64
      [] k \in {"Int", "Uint", "Uintptr"} -> WordSize

\* The casts the switches of the operators write: case K casts to K.
CastWidths == [k \in IntegerKinds |-> Width(k)]

\* ------------------------------------------------------------- bit vectors
\* The w low bits of the natural number n (n < 2^30).
NatBits(n, w) == [i \in 1..w |-> IF i > 30 THEN 0 ELSE (n \div (2 ^ (i - 1))) % 2]

\* Go conversion to a narrower integer type: keep the w low bits.
Truncate(x, w) == [i \in 1..w |-> x[i]]

\* Go conversion int8/16/32 -> int64: sign extension.
SignExtend(x, w) == [i \in 1..w |-> IF i <= Len(x) THEN x[i] ELSE x[Len(x)]]

\* Go conversion uint8/16/32 -> uint64: zero extension.
ZeroExtend(x, w) == [i \in 1..w |-> IF i <= Len(x) THEN x[i] ELSE 0]

BitNot(x) == [i \in 1..Len(x) |-> 1 - x[i]]

BitAnd(x, y) == [i \in 1..Len(x) |-> x[i] * y[i]]

BitOr(x, y) == [i \in 1..Len(x) |-> IF x[i] + y[i] > 0 THEN 1 ELSE 0]

BitXor(x, y) == [i \in 1..Len(x) |-> (x[i] + y[i]) % 2]

BitAndNot(x, y) == [i \in 1..Len(x) |-> x[i] * (1 - y[i])]

IsZero(x) == \A i \in 1..Len(x) : x[i] = 0

\* The sequence of the elements of f, computed once.
Vector(f) == SubSeq(f, 1, Len(f))

\* The arithmetic works on the bytes of a value (its width is a multiple of
\* 8): Bytes(x)[j] is the number of the bits 8j-7 .. 8j.
Bytes(x) ==
    Vector([j \in 1..(Len(x) \div 8) |->
        x[8 * j - 7] + 2 * x[8 * j - 6] + 4 * x[8 * j - 5] + 8 * x[8 * j - 4]
        + 16 * x[8 * j - 3] + 32 * x[8 * j - 2] + 64 * x[8 * j - 1] + 128 * x[8 * j]])

FromBytes(b) ==
    Vector([i \in 1..(8 * Len(b)) |-> (b[((i - 1) \div 8) + 1] \div (2 ^ ((i - 1) % 8))) % 2])

RECURSIVE AddCarry(_, _, _, _, _)
\* Ripple-carry addition of the bytes j.. of a and b; the carry out of the top
\* byte is dropped (wraparound at the width of the operands).
AddCarry(a, b, j, carry, acc) ==
    IF j > Len(a) THEN acc
    ELSE LET s == a[j] + b[j] + carry
         IN  AddCarry(a, b, j + 1, s \div 256, Append(acc, s % 256))

\* x + y at the width of x.
BitAdd(x, y) == FromBytes(AddCarry(Bytes(x), Bytes(y), 1, 0, <<>>))

\* x - y at the width of x: x + ^y + 1.
BitSub(x, y) == FromBytes(AddCarry(Bytes(x), Bytes(BitNot(y)), 1, 1, <<>>))

\* -x at the width of x.
BitNeg(x) == BitSub(NatBits(0, Len(x)), x)

\* x << n at the width of x (Go: zero once n reaches the width).
BitShl(x, n) == [i \in 1..Len(x) |-> IF i - n >= 1 THEN x[i - n] ELSE 0]

\* x >> n at the width of x, the vacated bits filled with fill.
BitShr(x, n, fill) == [i \in 1..Len(x) |-> IF i + n <= Len(x) THEN x[i + n] ELSE fill]

RECURSIVE Column(_, _, _, _)
\* The sum of the byte products a[i] * b[k + 1 - i], i in 1..n.
Column(a, b, k, n) ==
    IF n = 0 THEN 0 ELSE a[n] * b[k + 1 - n] + Column(a, b, k, n - 1)

RECURSIVE MulColumns(_, _, _, _, _)
\* Schoolbook product of the bytes of a and b, column k onward, wrapped at the
\* width of a.
MulColumns(a, b, k, carry, acc) ==
    IF k > Len(a) THEN acc
    ELSE LET s == Column(a, b, k, k) + carry
         IN  MulColumns(a, b, k + 1, s \div 256, Append(acc, s % 256))

\* x * y at the width of x.
BitMul(x, y) == FromBytes(MulColumns(Bytes(x), Bytes(y), 1, 0, <<>>))

RECURSIVE BytesLess(_, _, _)
\* Unsigned a < b, decided from the most significant differing byte.
BytesLess(a, b, j) ==
    IF j = 0 THEN FALSE
    ELSE IF a[j] # b[j] THEN a[j] < b[j]
    ELSE BytesLess(a, b, j - 1)

ULess(x, y) == BytesLess(Bytes(x), Bytes(y), Len(x) \div 8)

\* The order of the bit patterns, whatever the sign.
SLessUnsigned(x, y) == ULess(x, y)

\* Signed (two's complement) x < y.
SLess(x, y) ==
    IF x[Len(x)] # y[Len(y)] THEN x[Len(x)] = 1 ELSE ULess(x, y)

RECURSIVE SubBorrow(_, _, _, _, _)
\* a - b on bytes, byte j onward; the final borrow is dropped.
SubBorrow(a, b, j, borrow, acc) ==
    IF j > Len(a) THEN acc
    ELSE LET d == a[j] - b[j] - borrow
         IN  SubBorrow(a, b, j + 1, IF d < 0 THEN 1 ELSE 0, Append(acc, d % 256))

\* The remainder bytes r shifted left by one bit, with bit shifted in.
ShiftIn(r, bit) ==
    Vector([j \in 1..Len(r) |->
        ((2 * r[j]) % 256) + (IF j = 1 THEN bit ELSE r[j - 1] \div 128)])

\* The divisor y is subtracted from the shifted remainder r1 if it fits (it
\* does when a bit was shifted out of the remainder: carry), and the bit i of
\* the quotient q tells whether it did.
Restore(q, i, r1, y, carry) ==
    IF carry \/ ~BytesLess(r1, y, Len(y))
    THEN <<[q EXCEPT ![i] = 1], SubBorrow(r1, y, 1, 0, <<>>)>>
    ELSE <<q, r1>>

\* One step of restoring division, on bytes: the bit i of the dividend x is
\* shifted into the remainder qr[2] and the divisor y is subtracted if it fits.
DivStep(x, y, i, qr) ==
    Restore(qr[1], i, ShiftIn(qr[2], x[i]), y, qr[2][Len(y)] >= 128)

\* The eight steps of the bits 8j .. 8j-7 of the dividend.
DivByte(x, y, j, qr) ==
    DivStep(x, y, 8 * j - 7,
      DivStep(x, y, 8 * j - 6,
        DivStep(x, y, 8 * j - 5,
          DivStep(x, y, 8 * j - 4,
            DivStep(x, y, 8 * j - 3,
              DivStep(x, y, 8 * j - 2,
                DivStep(x, y, 8 * j - 1,
                  DivStep(x, y, 8 * j, qr))))))))

RECURSIVE UDivLoop(_, _, _, _)
\* Restoring division of the bits x by the bytes y # 0, from the byte j of
\* the dividend down: <<quotient bits, remainder bytes>>.  (Comparing the
\* pair after the byte with the pair before it makes the evaluator compute it
\* at this step, not as sixty-four pending steps at the end.)
UDivLoop(x, y, j, qr) ==
    IF j = 0 THEN qr
    ELSE LET next == DivByte(x, y, j, qr)
         IN  IF next = qr THEN UDivLoop(x, y, j - 1, qr)
             ELSE UDivLoop(x, y, j - 1, next)

\* The quotient bits and the remainder bits of a finished division.
QuoRem(qr) == <<qr[1], FromBytes(qr[2])>>

\* Unsigned x / y and x % y, y # 0.
UDivMod(x, y) ==
    QuoRem(UDivLoop(Vector(x), Bytes(y), Len(x) \div 8,
                    <<Vector(NatBits(0, Len(x))), Bytes(NatBits(0, Len(x)))>>))

\* |x| at the width of x (MinInt is its own magnitude, read unsigned).
Magnitude(x) == IF x[Len(x)] = 1 THEN BitNeg(x) ELSE x

\* A division whose remainder takes the sign ny of the divisor.
WithSignsOfDivisor(nx, ny, qr) ==
    << IF nx # ny THEN BitNeg(qr[1]) ELSE qr[1],
       IF ny THEN BitNeg(qr[2]) ELSE qr[2] >>

\* The signs of a signed division: the quotient is negative when the signs of
\* the operands differ, the remainder takes the sign nx of the dividend.
WithSigns(nx, ny, qr) ==
    << IF nx # ny THEN BitNeg(qr[1]) ELSE qr[1],
       IF nx THEN BitNeg(qr[2]) ELSE qr[2] >>

\* Go's / and % at the width of x, y # 0.  Signed: the quotient truncates
\* toward zero, the remainder takes the sign of x, and MinInt / -1 wraps to
\* MinInt, 0.
DivMod(signed, x, y) ==
    WithSigns(signed /\ x[Len(x)] = 1, signed /\ y[Len(y)] = 1,
              UDivMod(IF signed THEN Magnitude(x) ELSE x,
                      IF signed THEN Magnitude(y) ELSE y))

\* ---------------------------------------------------- rationals (floats)
\* A float is held as an exact dyadic rational [num, den], den > 0, in lowest
\* terms; den = 0 encodes +Inf (num = 1), -Inf (num = -1) and NaN (num = 0).
\* The float operands of the model are chosen so that every result is exactly
\* representable, where IEEE arithmetic is rational arithmetic.
Abs(n) == IF n < 0 THEN -n ELSE n

RECURSIVE Gcd(_, _)
Gcd(a, b) == IF b = 0 THEN a ELSE Gcd(b, a % b)

Rat(n, d) ==
    IF d = 0 THEN [num |-> IF n > 0 THEN 1 ELSE IF n < 0 THEN -1 ELSE 0, den |-> 0]
    ELSE LET g == Gcd(Abs(n), Abs(d))
             sg == IF d < 0 THEN -1 ELSE 1
         IN  [num |-> sg * (n \div g), den |-> sg * (d \div g)]

NaN == [num |-> 0, den |-> 0]

IsNaN(x) == x.den = 0 /\ x.num = 0

IsInf(x) == x.den = 0 /\ x.num # 0

FAdd(x, y) ==
    IF IsNaN(x) \/ IsNaN(y) THEN NaN
    ELSE IF IsInf(x) /\ IsInf(y) THEN (IF x.num = y.num THEN x ELSE NaN)
    ELSE IF IsInf(x) THEN x
    ELSE IF IsInf(y) THEN y
    ELSE Rat(x.num * y.den + y.num * x.den, x.den * y.den)

FSub(x, y) == FAdd(x, [num |-> -y.num, den |-> y.den])

FMul(x, y) ==
    IF IsNaN(x) \/ IsNaN(y) THEN NaN
    ELSE IF IsInf(x) \/ IsInf(y) THEN Rat(x.num * y.num, 0)
    ELSE Rat(x.num * y.num, x.den * y.den)

\* IEEE division: x/0 is +-Inf for x # 0 and NaN for x = 0.
FQuo(x, y) ==
    IF IsNaN(x) \/ IsNaN(y) THEN NaN
    ELSE IF IsInf(x) THEN (IF IsInf(y) THEN NaN ELSE Rat(x.num * (IF y.num < 0 THEN -1 ELSE 1), 0))
    ELSE IF IsInf(y) THEN Rat(0, 1)
    ELSE Rat(x.num * y.den, x.den * y.num)

\* IEEE order: every comparison with NaN is false.
FLess(x, y) ==
    IF IsNaN(x) \/ IsNaN(y) THEN FALSE
    ELSE IF IsInf(x) \/ IsInf(y) THEN
         (x # y) /\ ((IsInf(x) /\ x.num < 0) \/ (IsInf(y) /\ y.num > 0))
    ELSE x.num * y.den < y.num * x.den

FEq(x, y) == ~IsNaN(x) /\ ~IsNaN(y) /\ x = y

\* Complex numbers are pairs [re, im] of floats.
CAdd(x, y) == [re |-> FAdd(x.re, y.re), im |-> FAdd(x.im, y.im)]

CSub(x, y) == [re |-> FSub(x.re, y.re), im |-> FSub(x.im, y.im)]

CMul(x, y) == [re |-> FSub(FMul(x.re, y.re), FMul(x.im, y.im)),
               im |-> FAdd(FMul(x.re, y.im), FMul(x.im, y.re))]

\* Complex division by a non-zero finite divisor.
CQuo(x, y) ==
    LET d == FAdd(FMul(y.re, y.re), FMul(y.im, y.im))
    IN  [re |-> FQuo(FAdd(FMul(x.re, y.re), FMul(x.im, y.im)), d),
         im |-> FQuo(FSub(FMul(x.im, y.re), FMul(x.re, y.im)), d)]

\* Byte-wise order of two strings (sequences of bytes).
RECURSIVE StrLess(_, _)
StrLess(s, t) ==
    IF t = <<>> THEN FALSE
    ELSE IF s = <<>> THEN TRUE
    ELSE IF Head(s) # Head(t) THEN Head(s) < Head(t)
    ELSE StrLess(Tail(s), Tail(t))

\* ------------------------------------------------------------ types.Type
\* A types.Type: a basic type (name = "") of some Kind, a named type with its
\* underlying Kind, or a pointer / slice type (kind "Ptr", "Slice").
Typ(k) == [name |-> "", kind |-> k]

Named(n, k) == [name |-> n, kind |-> k]

\* typ.(*types.Named)
isNamed(t) == t.name # ""

\* isTyped: every type but the untyped basic types.
isTyped(t) == isNamed(t) \/ t.kind \notin UntypedKinds

\* types.Identical
Identical(t, u) == t = u

\* types.AssignableTo(v, t) for the types of the model: identical types, an
\* untyped constant type to a type of its class, untyped nil to a pointer or
\* slice, or identical underlying types with one side not a named type (every
\* basic type counts as named).
AssignableTo(v, t) ==
    \/ Identical(v, t)
    \/ /\ ~isTyped(v)
       /\ \/ v.kind = "UntypedBool" /\ t.kind = "Bool"
          \/ v.kind = "UntypedString" /\ t.kind = "String"
          \/ v.kind = "UntypedNil" /\ t.kind \in {"Ptr", "Slice"}
          \/ v.kind \in {"UntypedInt", "UntypedRune"}
                /\ t.kind \in IntegerKinds \cup FloatKinds \cup ComplexKinds
          \/ v.kind = "UntypedFloat" /\ t.kind \in FloatKinds \cup ComplexKinds
          \/ v.kind = "UntypedComplex" /\ t.kind \in ComplexKinds

\* The declared types of the interpreted program.
NamedTypes == {Named("MyInt8", "Int8"), Named("MyUint16", "Uint16"),
               Named("MyBool", "Bool")}

\* The types of the interpreted program: the basic types, a pointer type, a
\* slice type and the declared types.
TypedTypes ==
    {Typ(k) : k \in IntegerKinds \cup FloatKinds \cup ComplexKinds
                     \cup {"Bool", "String", "Ptr", "Slice"}}
    \cup NamedTypes

\* ---------------------------------------------------------- reflect.Value
\* A reflect.Type is the pair of its name and Kind; NoRType is the nil Type.
NoRType == [name |-> "", kind |-> "Invalid"]

\* The Values an Object holds: a reflect.Value (rep = "reflect") of a
\* reflect.Type, or an exact.Value (rep = "exact") of a constant Kind.
RValue(rt, v) == [rep |-> "reflect", rtype |-> rt, v |-> v]

EValue(ek, v) == [rep |-> "exact", rtype |-> [name |-> "", kind |-> ek], v |-> v]

\* Value.Kind()
KindOf(val) == val.rtype.kind

\* The zero value of each Kind.
ZeroOf(k) ==
    CASE k \in IntegerKinds -> NatBits(0, 64)
      [] k \in FloatKinds -> Rat(0, 1)
      [] k \in ComplexKinds -> [re |-> Rat(0, 1), im |-> Rat(0, 1)]
      [] k = "Bool" -> FALSE
      [] k = "String" -> <<>>
      [] k \in {"Ptr", "Slice"} -> 0

\* getSettableZeroVal(rtyp) and reflect.New(rtyp).Elem(): a fresh settable
\* Value of the Type, holding its zero value.
getSettableZeroVal(rt) == RValue(rt, ZeroOf(rt.kind))

\* ----------------------------------------------------------------- faults
\* How a call ends: it returns (how = "return"), it panics with a value the
\* caller can recover (how = "panic"), or log.Fatal ends the process
\* (how = "exit").
NoFault == [how |-> "return", val |-> "", msg |-> ""]

Panic(val, msg) == [how |-> "panic", val |-> val, msg |-> msg]

\* A log.Fatal that returns to its caller.
FatalIgnored(msg) == NoFault

Fatal(msg) == [how |-> "exit", val |-> "", msg |-> msg]

\* An integer division by zero that ends the process.
DivideAbort == Fatal("integer divide by zero")

\* The run-time panic of an integer division by zero.
DivideError == Panic("runtime.Error", "integer divide by zero")

\* The panic of Value.Int, Uint, Float, Complex, IsNil or SetBool on a Value
\* of another Kind.
ValueError(method) == Panic("reflect.ValueError", method)

\* The panic of a failed type assertion obj.Value.(T).
AssertionError == Panic("runtime.TypeAssertionError", "interface conversion")

\* ----------------------------------------------------------------- Object
Object(val, t) == [Value |-> val, Typ |-> t]

\* What a call returns when it does not return.
NoObject == [Value |-> [rep |-> "none", rtype |-> NoRType, v |-> 0], Typ |-> Typ("Invalid")]

Returned(obj) == [obj |-> obj, fault |-> NoFault]

Faulted(f) == [obj |-> NoObject, fault |-> f]

\* --------------------------------------------------------------- registry
\* env.interp.typeMap: the reflect.Type of every type of the program.
TypeMapOf == [t \in TypedTypes |-> [name |-> t.name, kind |-> t.kind]]

\* getReflectType(typeMap, typ): nil for a type the map does not hold.
getReflectType(tm, t) == IF t \in DOMAIN tm THEN tm[t] ELSE NoRType

\* ------------------------------------------------------------- exact.Value
\* An integer constant is exact: a sign and a magnitude of up to 64 bits.
ExactInt(neg, mag) == [neg |-> neg, mag |-> mag]

\* exact.Int64Val: the 64 low bits of the constant in two's complement.
Int64Val(c) == IF c.neg THEN BitNeg(c.mag) ELSE c.mag

\* exact.Uint64Val: the 64 low bits of the constant.
Uint64Val(c) == IF c.neg THEN BitNeg(c.mag) ELSE c.mag

\* The Value of a Go integer of Kind k made from the 64 bit pattern x.
IntValue(rt, x) ==
    RValue(rt, IF rt.kind \in SignedKinds
                 THEN SignExtend(Truncate(x, Width(rt.kind)), 64)
                 ELSE ZeroExtend(Truncate(x, Width(rt.kind)), 64))

\* reflect.ValueOf(x) for a Go value of the basic Kind k.
ValueOf(k, x) == IF k \in IntegerKinds THEN IntValue(Typ(k), x) ELSE RValue(Typ(k), x)

\* A normalization that returns every Object as it is.
getTypedObjectSame(obj) == Returned(obj)

\* getTypedObject: a typed Object as it is, an untyped constant as an Object of
\* its default type.
getTypedObject(obj) ==
    IF isTyped(obj.Typ) THEN Returned(obj)
    ELSE IF obj.Value.rep # "exact" THEN Faulted(AssertionError)
    ELSE LET ev == obj.Value.v
         IN  CASE obj.Typ.kind = "UntypedBool" ->
                    Returned(Object(ValueOf("Bool", ev), Typ("Bool")))
               [] obj.Typ.kind = "UntypedInt" ->
                    Returned(Object(ValueOf("Int", Int64Val(ev)), Typ("Int")))
               [] obj.Typ.kind = "UntypedFloat" ->
                    Returned(Object(ValueOf("Float64", ev), Typ("Float64")))
               [] obj.Typ.kind = "UntypedComplex" ->
                    Returned(Object(ValueOf("Complex128", ev), Typ("Complex128")))
               [] obj.Typ.kind = "UntypedRune" ->
                    Returned(Object(ValueOf("Int32", Int64Val(ev)), Typ("Int32")))
               [] obj.Typ.kind = "UntypedString" ->
                    Returned(Object(ValueOf("String", ev), Typ("String")))
               [] obj.Typ.kind = "UntypedNil" ->
                    Faulted(Fatal("getTypedObject: Got untyped nil"))

\* ------------------------------------------------- the operators' switches
\* The reflect.Kinds each operator's switch has a case for.
NumericCases == IntegerKinds \cup FloatKinds \cup ComplexKinds

AddCases == NumericCases \cup {"String"}

ShiftLeftCases == SignedKinds \cup {"Uint", "Uint8", "Uint16", "Uint32", "Uintptr"}

OrderedCases == IntegerKinds \cup FloatKinds \cup {"String"}

\* The integer operation of a case, on operands already cast to the case's
\* type.  Division by zero is decided by the caller.
IntOp(op, signed, a, b) ==
    CASE op = "ADD" -> BitAdd(a, b)
      [] op = "SUB" -> BitSub(a, b)
      [] op = "MUL" -> BitMul(a, b)
      [] op = "QUO" \/ op = "REM" -> DivMod(signed, a, b)[IF op = "QUO" THEN 1 ELSE 2]
      [] op = "AND" -> BitAnd(a, b)
      [] op = "OR" -> BitOr(a, b)
      [] op = "XOR" -> BitXor(a, b)
      [] op = "AND_NOT" -> BitAndNot(a, b)

FloatOp(op, a, b) ==
    CASE op = "ADD" -> FAdd(a, b)
      [] op = "SUB" -> FSub(a, b)
      [] op = "MUL" -> FMul(a, b)
      [] op = "QUO" -> FQuo(a, b)

ComplexOp(op, a, b) ==
    CASE op = "ADD" -> CAdd(a, b)
      [] op = "SUB" -> CSub(a, b)
      [] op = "MUL" -> CMul(a, b)
      [] op = "QUO" -> CQuo(a, b)

\* newVal.SetInt(x) / newVal.SetUint(x): panics unless newVal is of a signed /
\* unsigned Kind, and stores x at the width of newVal's Kind.
SetInt(newVal, newTyp, x) ==
    IF KindOf(newVal) \notin SignedKinds THEN Faulted(ValueError("SetInt"))
    ELSE Returned(Object(IntValue(newVal.rtype, x), newTyp))

SetUint(newVal, newTyp, x) ==
    IF KindOf(newVal) \notin UnsignedKinds THEN Faulted(ValueError("SetUint"))
    ELSE Returned(Object(IntValue(newVal.rtype, x), newTyp))

\* newVal.SetFloat / SetComplex / SetString / SetBool
SetOther(newVal, newTyp, kinds, method, x) ==
    IF KindOf(newVal) \notin kinds THEN Faulted(ValueError(method))
    ELSE Returned(Object(RValue(newVal.rtype, x), newTyp))

\* rv.String(): the string of a String Value, "<T Value>" of any other.
StringOf(val) == IF KindOf(val) = "String" THEN val.v ELSE <<60, 62>>

\* The result x of an integer case, widened and stored: newVal.SetInt(int64(x))
\* in the signed cases, newVal.SetUint(uint64(x)) in the unsigned ones.
SetInteger(signed, newVal, newTyp, x) ==
    IF signed THEN SetInt(newVal, newTyp, SignExtend(x, 64))
    ELSE SetUint(newVal, newTyp, ZeroExtend(x, 64))

\* An integer case on the operands a and b cast to the case's type: Go panics
\* on an integer division by zero.
IntCase(op, signed, a, b, newVal, newTyp) ==
    IF op \in {"QUO", "REM"} /\ IsZero(b) THEN Faulted(DivideError)
    ELSE SetInteger(signed, newVal, newTyp, IntOp(op, signed, a, b))

\* One case of the switch of an arithmetic or bitwise operator: the operands
\* are read with Int(), Uint(), Float(), Complex() or String(), cast to the
\* type of the case (castWidth bits wide for the integers), combined, and the
\* result is widened and stored in newVal.
ArithCase(op, castWidth, lv, rv, newVal, newTyp) ==
    CASE KindOf(lv) \in SignedKinds /\ KindOf(rv) \notin SignedKinds ->
           Faulted(ValueError("Int"))
      [] KindOf(lv) \in UnsignedKinds /\ KindOf(rv) \notin UnsignedKinds ->
           Faulted(ValueError("Uint"))
      [] KindOf(lv) \in IntegerKinds /\ KindOf(rv) \in IntegerKinds
            /\ (KindOf(lv) \in SignedKinds) = (KindOf(rv) \in SignedKinds) ->
           IntCase(op, KindOf(lv) \in SignedKinds,
                   Truncate(lv.v, castWidth[KindOf(lv)]),
                   Truncate(rv.v, castWidth[KindOf(lv)]), newVal, newTyp)
      [] KindOf(lv) \in FloatKinds ->
           IF KindOf(rv) \notin FloatKinds THEN Faulted(ValueError("Float"))
           ELSE SetOther(newVal, newTyp, FloatKinds, "SetFloat", FloatOp(op, lv.v, rv.v))
      [] KindOf(lv) \in ComplexKinds ->
           IF KindOf(rv) \notin ComplexKinds THEN Faulted(ValueError("Complex"))
           ELSE SetOther(newVal, newTyp, ComplexKinds, "SetComplex", ComplexOp(op, lv.v, rv.v))
      [] KindOf(lv) = "String" ->
           SetOther(newVal, newTyp, {"String"}, "SetString", lv.v \o StringOf(rv))

\* The switch of an operator whose result takes the underlying basic type of
\* the left operand's type.
OperatorSwitchBasic(o, lv, rv, newTyp, newRtyp) ==
    IF newRtyp = NoRType THEN Faulted(Fatal(o.fn))
    ELSE IF KindOf(lv) \notin o.cases THEN Faulted(Panic("string", o.msg))
    ELSE ArithCase(o.op, o.casts, lv, rv, getSettableZeroVal(newRtyp), Typ(newTyp.kind))

\* The switch of an operator o on the left Value's Kind, after the zero Value
\* of the left operand's type is made from the registry's reflect.Type.
OperatorSwitch(o, lv, rv, newTyp, newRtyp) ==
    IF newRtyp = NoRType THEN Faulted(Fatal(o.fn))
    ELSE IF KindOf(lv) \notin o.cases THEN Faulted(Panic("string", o.msg))
    ELSE ArithCase(o.op, o.casts, lv, rv, getSettableZeroVal(newRtyp), newTyp)

\* The body of an operator o on its normalized operands tl and tr.
OperatorBody(o, tm, tl, tr) ==
    IF tl.fault # NoFault THEN Faulted(tl.fault)
    ELSE IF tr.fault # NoFault THEN Faulted(tr.fault)
    ELSE IF tl.obj.Value.rep # "reflect" \/ tr.obj.Value.rep # "reflect"
         THEN Faulted(AssertionError)
    ELSE OperatorSwitch(o, tl.obj.Value, tr.obj.Value, tl.obj.Typ,
                        getReflectType(tm, tl.obj.Typ))

\* The body shared by the arithmetic and bitwise operators: normalize both
\* operands, make the zero Value of the left operand's type, then switch on
\* the left Value's Kind.
BinaryOperator(o, tm, left, right) ==
    OperatorBody(o, tm, getTypedObject(left), getTypedObject(right))

\* The nine arithmetic and bitwise operator functions differ in the Go
\* operator of their cases (op), in the Kinds their switch has a case for
\* (cases), in the type each case casts to (casts) and in the message of the
\* default case (msg).

\* The casts of operatorAdd with the Int64 case casting to int32.
NarrowWidth == [k \in IntegerKinds |-> IF k = "Int64" THEN 32 ELSE Width(k)]

operatorAddNarrow ==
    [fn |-> "operatorAdd", op |-> "ADD", cases |-> AddCases, casts |-> NarrowWidth,
     msg |-> "Type error: Invalid operands to addition"]

operatorAdd ==
    [fn |-> "operatorAdd", op |-> "ADD", cases |-> AddCases, casts |-> CastWidths,
     msg |-> "Type error: Invalid operands to addition"]

operatorSubtract ==
    [fn |-> "operatorSubtract", op |-> "SUB", cases |-> NumericCases, casts |-> CastWidths,
     msg |-> "Type error: Invalid operands to subtraction"]

operatorMultiply ==
    [fn |-> "operatorMultiply", op |-> "MUL", cases |-> NumericCases, casts |-> CastWidths,
     msg |-> "Type error: Invalid operands to multiplication"]

operatorQuotient ==
    [fn |-> "operatorQuotient", op |-> "QUO", cases |-> NumericCases, casts |-> CastWidths,
     msg |-> "Type error: Invalid operands to division"]

operatorRemainder ==
    [fn |-> "operatorRemainder", op |-> "REM", cases |-> IntegerKinds, casts |-> CastWidths,
     msg |-> "Type error: Invalid operands to '%' operator"]

operatorAnd ==
    [fn |-> "operatorAnd", op |-> "AND", cases |-> IntegerKinds, casts |-> CastWidths,
     msg |-> "Type error: Invalid operands to '&' operator"]

operatorOr ==
    [fn |-> "operatorOr", op |-> "OR", cases |-> IntegerKinds, casts |-> CastWidths,
     msg |-> "Type error: Invalid operands to '|' operator"]

operatorXor ==
    [fn |-> "operatorXor", op |-> "XOR", cases |-> IntegerKinds, casts |-> CastWidths,
     msg |-> "Type error: Invalid operands to '^' operator"]

operatorAndNot ==
    [fn |-> "operatorAndNot", op |-> "AND_NOT", cases |-> IntegerKinds, casts |-> CastWidths,
     msg |-> "Type error: Invalid operands to '&^' operator"]

\* ------------------------------------------------------------------ shifts
RECURSIVE BitsToNat(_, _)
\* The natural number of the bits i.. of x (fewer than 31 bits).
BitsToNat(x, i) ==
    IF i > Len(x) THEN 0 ELSE x[i] + 2 * BitsToNat(x, i + 1)

\* The shift count of the uint64 amt: a count of 128 or more shifts every bit
\* out, as 128 does.
ShiftCount(amt) ==
    IF \E i \in 8..64 : amt[i] = 1 THEN 128 ELSE BitsToNat(Truncate(amt, 7), 1)

\* A shift whose >> fills with zeros for every type.
ShiftOpLogical(op, signed, a, n) ==
    IF op = "SHL" THEN BitShl(a, n) ELSE BitShr(a, n, 0)

\* The shift of a case, on the left operand already cast to the case's type:
\* << fills with zeros, >> with the sign bit for the signed types and with
\* zeros for the unsigned ones.
ShiftOp(op, signed, a, n) ==
    IF op = "SHL" THEN BitShl(a, n)
    ELSE BitShr(a, n, IF signed THEN a[Len(a)] ELSE 0)

\* The count of a shift: the right operand's reflect.Value, or the uint64 of
\* its exact.Value, read with Uint().
CountValue(right) ==
    IF right.Value.rep = "reflect" THEN right.Value
    ELSE ValueOf("Uint64", Uint64Val(right.Value.v))

\* The switch of a shift operator o on the left Value's Kind: the left
\* operand is cast to the type of its case and shifted by amt.
ShiftSwitch(o, lv, amt, newTyp, newRtyp) ==
    IF newRtyp = NoRType THEN Faulted(Fatal(o.fn))
    ELSE IF KindOf(lv) \notin o.cases
         THEN Faulted(Panic("string", "Type error: Invalid operands to shift"))
    ELSE SetInteger(KindOf(lv) \in SignedKinds, getSettableZeroVal(newRtyp), newTyp,
                    ShiftOp(o.op, KindOf(lv) \in SignedKinds,
                            Truncate(lv.v, o.casts[KindOf(lv)]), amt))

\* The body of a shift operator o on its normalized left operand tl and on
\* its count rv.
ShiftBody(o, tm, tl, rv) ==
    IF KindOf(rv) \notin UnsignedKinds THEN Faulted(ValueError("Uint"))
    ELSE ShiftSwitch(o, tl.obj.Value, ShiftCount(rv.v), tl.obj.Typ,
                     getReflectType(tm, tl.obj.Typ))

\* The conversions of the operands of a shift: of tl, the normalized left
\* operand, and of the right operand.
ShiftConversions(o, tm, tl, right) ==
    IF tl.fault # NoFault THEN Faulted(tl.fault)
    ELSE IF tl.obj.Value.rep # "reflect" THEN Faulted(AssertionError)
    ELSE IF right.Value.rep \notin {"reflect", "exact"} THEN Faulted(AssertionError)
    ELSE IF right.Value.rep = "exact" /\ KindOf(right.Value) # "Int"
         THEN Faulted(Panic("string", "exact.Uint64Val: not an Int"))
    ELSE ShiftBody(o, tm, tl, CountValue(right))

\* The body shared by the two shift operators: the left operand is
\* normalized, the right one is not.
ShiftOperator(o, tm, left, right) ==
    ShiftConversions(o, tm, getTypedObject(left), right)

operatorShiftRight ==
    [fn |-> "operatorShiftRight", op |-> "SHR", cases |-> IntegerKinds, casts |-> CastWidths]

operatorShiftLeft ==
    [fn |-> "operatorShiftLeft", op |-> "SHL", cases |-> ShiftLeftCases, casts |-> CastWidths]

\* ------------------------------------------------------------- comparisons
\* The Object of a comparison that makes reflect.ValueOf of the Go bool for
\* every result type.
BoolResultPlain(fn, tm, typ, outcome) == Returned(Object(ValueOf("Bool", outcome), typ))

\* The Object a comparison returns: for a named result type a fresh Value of
\* the type's reflect.Type set to the outcome, otherwise reflect.ValueOf of
\* the Go bool; in both cases the Object's type is the result type.
BoolResult(fn, tm, typ, outcome) ==
    IF isNamed(typ)
    THEN LET newRtyp == getReflectType(tm, typ)
         IN  IF newRtyp = NoRType THEN Faulted(Fatal(fn))
             ELSE SetOther(getSettableZeroVal(newRtyp), typ, {"Bool"}, "SetBool", outcome)
    ELSE Returned(Object(ValueOf("Bool", outcome), typ))

\* The ordered comparison rel of two Go values, from their <, > and ==.
Rel(rel, lt, gt, eq) ==
    CASE rel = "LSS" -> lt
      [] rel = "GTR" -> gt
      [] rel = "LEQ" -> lt \/ eq
      [] rel = "GEQ" -> gt \/ eq

\* One case of the switch of an ordered comparison: both operands are read
\* with Int(), Uint(), Float() or String() and compared.
OrderedCase(rel, lv, rv) ==
    LET k == KindOf(lv)
    IN  CASE k \in SignedKinds ->
               IF KindOf(rv) \notin SignedKinds THEN Faulted(ValueError("Int"))
               ELSE Returned(Rel(rel, SLess(lv.v, rv.v), SLess(rv.v, lv.v), lv.v = rv.v))
          [] k \in UnsignedKinds ->
               IF KindOf(rv) \notin UnsignedKinds THEN Faulted(ValueError("Uint"))
               ELSE Returned(Rel(rel, ULess(lv.v, rv.v), ULess(rv.v, lv.v), lv.v = rv.v))
          [] k \in FloatKinds ->
               IF KindOf(rv) \notin FloatKinds THEN Faulted(ValueError("Float"))
               ELSE Returned(Rel(rel, FLess(lv.v, rv.v), FLess(rv.v, lv.v), FEq(lv.v, rv.v)))
          [] k = "String" ->
               Returned(Rel(rel, StrLess(lv.v, StringOf(rv)), StrLess(StringOf(rv), lv.v),
                            lv.v = StringOf(rv)))

\* The Object of the outcome c of a comparison's switch.
ComparisonResult(fn, tm, typ, c) ==
    IF c.fault # NoFault THEN Faulted(c.fault) ELSE BoolResult(fn, tm, typ, c.obj)

\* The body of an ordered comparison o on its normalized operands tl and tr.
OrderedBody(o, tm, tl, tr, typ) ==
    IF tl.fault # NoFault THEN Faulted(tl.fault)
    ELSE IF tr.fault # NoFault THEN Faulted(tr.fault)
    ELSE IF tl.obj.Value.rep # "reflect" \/ tr.obj.Value.rep # "reflect"
         THEN Faulted(AssertionError)
    ELSE IF KindOf(tl.obj.Value) \notin o.cases
         THEN Faulted(Panic("string", "Type error: Invalid operands to ordered comparison"))
    ELSE ComparisonResult(o.fn, tm, typ, OrderedCase(o.rel, tl.obj.Value, tr.obj.Value))

\* The body shared by the four ordered comparisons.
OrderedOperator(o, tm, left, right, typ) ==
    OrderedBody(o, tm, getTypedObject(left), getTypedObject(right), typ)

\* The four ordered comparisons differ in the Go operator of their cases.
operatorLess == [fn |-> "operatorLess", rel |-> "LSS", cases |-> OrderedCases]

operatorGreater == [fn |-> "operatorGreater", rel |-> "GTR", cases |-> OrderedCases]

operatorLessEqual == [fn |-> "operatorLessEqual", rel |-> "LEQ", cases |-> OrderedCases]

operatorGreaterEqual == [fn |-> "operatorGreaterEqual", rel |-> "GEQ", cases |-> OrderedCases]

\* ------------------------------------------------------------------ Equal
\* The closure isUntypedNil of operatorEqual.
isUntypedNil(t) == ~isTyped(t) /\ t.kind = "UntypedNil"

\* Value.IsNil(): panics unless the Value is of a Kind that has a nil.
IsNil(val) ==
    IF KindOf(val) \notin {"Ptr", "Slice"} THEN Faulted(ValueError("IsNil"))
    ELSE Returned(val.v = 0)

\* x.Interface() == y.Interface(): false for different dynamic types, the Go
\* == of the two values for the same type, a run-time panic for a type that
\* is not comparable.
InterfaceEqual(x, y) ==
    IF x.rtype # y.rtype THEN Returned(FALSE)
    ELSE CASE KindOf(x) \in FloatKinds -> Returned(FEq(x.v, y.v))
           [] KindOf(x) \in ComplexKinds ->
                Returned(FEq(x.v.re, y.v.re) /\ FEq(x.v.im, y.v.im))
           [] KindOf(x) = "Slice" ->
                Faulted(Panic("runtime.Error", "comparing uncomparable type"))
           [] OTHER -> Returned(x.v = y.v)

\* The number a small integer Value holds.
SmallInt(val) ==
    IF KindOf(val) \in SignedKinds /\ val.v[64] = 1
    THEN 0 - BitsToNat(Truncate(BitNeg(val.v), 30), 1)
    ELSE BitsToNat(Truncate(val.v, 30), 1)

\* A conversion that leaves the Value as it is.
ConvertNone(val, rt) == Returned(val)

\* val.Convert(rt): the Go conversion between integer types (truncation and
\* extension), from a small integer to a float, between float types, between
\* complex types and between types of the same Kind; a panic otherwise.
Convert(val, rt) ==
    LET from == KindOf(val)
        to == rt.kind
    IN  CASE from \in IntegerKinds /\ to \in IntegerKinds ->
               Returned(IntValue(rt, val.v))
          [] from \in IntegerKinds /\ to \in FloatKinds ->
               Returned(RValue(rt, Rat(SmallInt(val), 1)))
          [] from \in FloatKinds /\ to \in FloatKinds -> Returned(RValue(rt, val.v))
          [] from \in ComplexKinds /\ to \in ComplexKinds -> Returned(RValue(rt, val.v))
          [] from = to /\ from \in {"Bool", "String"} -> Returned(RValue(rt, val.v))
          [] OTHER -> Faulted(Panic("string", "reflect.Value.Convert"))

\* The comparison of a converted operand c with the other operand: the
\* converted one is the left operand of == when convertedLeft.
ConvertedEqual(c, other, convertedLeft) ==
    IF c.fault # NoFault THEN Faulted(c.fault)
    ELSE IF convertedLeft THEN InterfaceEqual(c.obj, other)
    ELSE InterfaceEqual(other, c.obj)

\* The switch of operatorEqual on operands that are already normalized
\* (an untyped nil operand is left as it is).
EqualCase(leftIsUntypedNil, rightIsUntypedNil, left, right) ==
    CASE leftIsUntypedNil ->
           IF rightIsUntypedNil THEN Returned(TRUE) ELSE IsNil(right.Value)
      [] ~leftIsUntypedNil /\ rightIsUntypedNil -> IsNil(left.Value)
      [] ~leftIsUntypedNil /\ ~rightIsUntypedNil /\ Identical(left.Typ, right.Typ) ->
           InterfaceEqual(left.Value, right.Value)
      [] ~leftIsUntypedNil /\ ~rightIsUntypedNil /\ ~Identical(left.Typ, right.Typ)
            /\ AssignableTo(left.Typ, right.Typ) ->
           ConvertedEqual(Convert(left.Value, right.Value.rtype), right.Value, TRUE)
      [] OTHER ->
           ConvertedEqual(Convert(right.Value, left.Value.rtype), left.Value, FALSE)

\* The reflect.Value of a normalized operand t: lv := left.Value.(reflect.Value).
Reflected(t) ==
    IF t.fault # NoFault THEN Faulted(t.fault)
    ELSE IF t.obj.Value.rep # "reflect" THEN Faulted(AssertionError)
    ELSE t

\* Normalization of an operand of operatorEqual that does not skip untyped nil.
EqualOperandNormalized(obj) == Reflected(getTypedObject(obj))

\* Normalization of one operand of operatorEqual: skipped for untyped nil.
EqualOperand(obj) ==
    IF isUntypedNil(obj.Typ) THEN Returned(obj) ELSE Reflected(getTypedObject(obj))

\* The body of operatorEqual on its operands tl and tr after normalization.
EqualBody(tm, left, right, tl, tr, typ) ==
    IF tl.fault # NoFault THEN Faulted(tl.fault)
    ELSE IF tr.fault # NoFault THEN Faulted(tr.fault)
    ELSE ComparisonResult("operatorEqual", tm, typ,
                          EqualCase(isUntypedNil(left.Typ), isUntypedNil(right.Typ),
                                    tl.obj, tr.obj))

operatorEqual(tm, left, right, typ) ==
    EqualBody(tm, left, right, EqualOperand(left), EqualOperand(right), typ)

\* --------------------------------------------------------------- dispatch
\* A map that gives &^= the operator &&, which doBinaryOp has no case for.
assignOpsLogical ==
    [t \in {"ADD_ASSIGN", "SUB_ASSIGN", "MUL_ASSIGN", "QUO_ASSIGN", "REM_ASSIGN",
            "AND_ASSIGN", "AND_NOT_ASSIGN", "OR_ASSIGN", "SHL_ASSIGN", "SHR_ASSIGN",
            "XOR_ASSIGN"} |->
        CASE t = "ADD_ASSIGN" -> "ADD"
          [] t = "SUB_ASSIGN" -> "SUB"
          [] t = "MUL_ASSIGN" -> "MUL"
          [] t = "QUO_ASSIGN" -> "QUO"
          [] t = "REM_ASSIGN" -> "REM"
          [] t = "AND_ASSIGN" -> "AND"
          [] t = "AND_NOT_ASSIGN" -> "LAND"
          [] t = "OR_ASSIGN" -> "OR"
          [] t = "SHL_ASSIGN" -> "SHL"
          [] t = "SHR_ASSIGN" -> "SHR"
          [] t = "XOR_ASSIGN" -> "XOR"]

\* assignOps: the operator of each assignment operation.
assignOps ==
    [t \in {"ADD_ASSIGN", "SUB_ASSIGN", "MUL_ASSIGN", "QUO_ASSIGN", "REM_ASSIGN",
            "AND_ASSIGN", "AND_NOT_ASSIGN", "OR_ASSIGN", "SHL_ASSIGN", "SHR_ASSIGN",
            "XOR_ASSIGN"} |->
        CASE t = "ADD_ASSIGN" -> "ADD"
          [] t = "SUB_ASSIGN" -> "SUB"
          [] t = "MUL_ASSIGN" -> "MUL"
          [] t = "QUO_ASSIGN" -> "QUO"
          [] t = "REM_ASSIGN" -> "REM"
          [] t = "AND_ASSIGN" -> "AND"
          [] t = "AND_NOT_ASSIGN" -> "AND_NOT"
          [] t = "OR_ASSIGN" -> "OR"
          [] t = "SHL_ASSIGN" -> "SHL"
          [] t = "SHR_ASSIGN" -> "SHR"
          [] t = "XOR_ASSIGN" -> "XOR"]

\* The operator function the switch of doBinaryOp calls for a token.
BinaryCase(op) ==
    CASE op = "ADD" -> operatorAdd
      [] op = "SUB" -> operatorSubtract
      [] op = "MUL" -> operatorMultiply
      [] op = "QUO" -> operatorQuotient
      [] op = "REM" -> operatorRemainder
      [] op = "AND" -> operatorAnd
      [] op = "OR" -> operatorOr
      [] op = "XOR" -> operatorXor
      [] op = "AND_NOT" -> operatorAndNot
      [] op = "SHR" -> operatorShiftRight
      [] op = "SHL" -> operatorShiftLeft

doBinaryOp(tm, left, right, op) ==
    CASE op \in {"ADD", "SUB", "MUL", "QUO", "REM", "AND", "OR", "XOR", "AND_NOT"} ->
           BinaryOperator(BinaryCase(op), tm, left, right)
      [] op \in {"SHR", "SHL"} -> ShiftOperator(BinaryCase(op), tm, left, right)
      [] OTHER -> Faulted(Fatal("Binary operator not implemented yet"))

\* The operator function the switch of doBinaryComparisonOp calls for a token.
ComparisonCase(op) ==
    CASE op = "LSS" -> operatorLess
      [] op = "GTR" -> operatorGreater
      [] op = "LEQ" -> operatorLessEqual
      [] op = "GEQ" -> operatorGreaterEqual

doBinaryComparisonOp(tm, left, right, op, typ) ==
    CASE op \in {"LSS", "GTR", "LEQ", "GEQ"} ->
           OrderedOperator(ComparisonCase(op), tm, left, right, typ)
      [] op = "EQL" -> operatorEqual(tm, left, right, typ)
      [] OTHER -> Faulted(Fatal("Binary comparison operator not implemented yet"))

\* ---------------------------------------------------------------- operands
\* The bits of d, read below the top bit of a w bit integer.
Low(d, i) == IF i > 30 THEN 0 ELSE (d \div (2 ^ (i - 1))) % 2

\* The operand values of an integer Kind, as 64 bit patterns: d, the Kind's
\* maximum less d, and for a signed Kind -1-d and the minimum plus d, for an
\* unsigned Kind 2^(w-1)+d and 2^(w-1)-1-d; d in 0..MaxDelta.  Int8 has 10,
\* 120 and -8 besides, Uint8 has 248, Int64 has 5.
IntValues(k) ==
    LET w == Width(k)
    IN  {NatBits(n, 64) : n \in (0..MaxDelta)
            \cup (IF k = "Int8" THEN {10, 120} ELSE IF k = "Int64" THEN {5}
                  ELSE IF k = "Uint8" THEN {248} ELSE {})}
        \cup (IF k = "Int8" THEN {BitNot(NatBits(7, 64))} ELSE {})
        \cup (IF k \in SignedKinds
              THEN UNION {{ BitNot(NatBits(d, 64)),
                            [i \in 1..64 |-> IF i < w THEN 1 - Low(d, i) ELSE 0],
                            [i \in 1..64 |-> IF i < w THEN Low(d, i) ELSE 1] }
                          : d \in 0..MaxDelta}
              ELSE UNION {{ [i \in 1..64 |-> IF i <= w THEN 1 - Low(d, i) ELSE 0],
                            [i \in 1..64 |-> IF i < w THEN Low(d, i) ELSE IF i = w THEN 1 ELSE 0],
                            [i \in 1..64 |-> IF i < w THEN 1 - Low(d, i) ELSE 0] }
                          : d \in 0..MaxDelta})

\* The operand values of a Kind (0 is the nil pointer and the nil slice).
PayloadsOf(k) ==
    CASE k \in IntegerKinds -> IntValues(k)
      [] k \in FloatKinds -> {Rat(0, 1), Rat(1, 1), Rat(-1, 1), Rat(1, 2), Rat(2, 1)}
      [] k \in ComplexKinds ->
           {[re |-> Rat(0, 1), im |-> Rat(0, 1)], [re |-> Rat(1, 1), im |-> Rat(0, 1)],
            [re |-> Rat(0, 1), im |-> Rat(1, 1)], [re |-> Rat(1, 1), im |-> Rat(1, 1)]}
      [] k = "Bool" -> BOOLEAN
      [] k = "String" -> {<<>>, <<97, 98, 99>>, <<97, 98, 100>>}
      [] k \in {"Ptr", "Slice"} -> {0, 1}

\* The typed Objects of a type: a reflect.Value of the registry's reflect.Type.
ObjectsOf(t) == {Object(RValue(TypeMapOf[t], x), t) : x \in PayloadsOf(t.kind)}

\* The exact constant with the value of the 64 bit pattern x of Kind k.
ExactOf(k, x) ==
    IF k \in SignedKinds /\ x[64] = 1 THEN ExactInt(TRUE, BitNeg(x)) ELSE ExactInt(FALSE, x)

\* The untyped integer constants representable in the Kind k.
UntypedInts(k) ==
    {Object(EValue("Int", ExactOf(k, x)), Typ("UntypedInt")) : x \in IntValues(k)}

\* The other untyped constants.
UntypedOthers ==
    {Object(EValue("Bool", b), Typ("UntypedBool")) : b \in BOOLEAN}
    \cup {Object(EValue("Float", f), Typ("UntypedFloat")) : f \in {Rat(1, 1), Rat(1, 2)}}
    \cup {Object(EValue("Complex", c), Typ("UntypedComplex")) : c \in {[re |-> Rat(0, 1), im |-> Rat(1, 1)]}}
    \cup {Object(EValue("String", z), Typ("UntypedString")) : z \in {<<97, 98, 99>>}}
    \cup {Object(EValue("Int", ExactInt(FALSE, NatBits(n, 64))), Typ("UntypedRune")) : n \in {97}}

\* The untyped nil: its Value is no exact.Value.
UntypedNil == Object([rep |-> "nil", rtype |-> NoRType, v |-> 0], Typ("UntypedNil"))

\* The untyped constants a typed operand of type t may be combined with.
ConstantsFor(t) ==
    CASE t.kind \in IntegerKinds -> UntypedInts(t.kind)
      [] t.kind \in FloatKinds ->
           {c \in UntypedOthers : c.Typ.kind = "UntypedFloat"} \cup UntypedInts("Int8")
      [] t.kind \in ComplexKinds -> {c \in UntypedOthers : c.Typ.kind = "UntypedComplex"}
      [] t.kind = "Bool" -> {c \in UntypedOthers : c.Typ.kind = "UntypedBool"}
      [] t.kind = "String" -> {c \in UntypedOthers : c.Typ.kind = "UntypedString"}
      [] OTHER -> {}

\* The operand pairs of the binary operators: two Objects of one type, a
\* typed Object and a constant, two constants of one kind, and the untyped
\* nil with an integer.
OperandPairs ==
    UNION {ObjectsOf(t) \X (ObjectsOf(t) \cup ConstantsFor(t)) : t \in TypedTypes}
    \cup (UntypedInts("Int8") \X UntypedInts("Int8"))
    \cup {<<c, c>> : c \in UntypedOthers}
    \cup {<<UntypedNil, o>> : o \in ObjectsOf(Typ("Int8"))}
    \cup {<<o, UntypedNil>> : o \in ObjectsOf(Typ("Int8"))}

\* The counts of a shift: 0..MaxShift, and counts up to, at and past the
\* widths.
ShiftCounts == (0..MaxShift) \cup {7, 8, 16, 32, 63, 64, 65}

\* A count as an Object: an untyped constant or a uint of any of the counts,
\* or the count MaxShift of any integer type.
CountObjects ==
    {Object(EValue("Int", ExactInt(FALSE, NatBits(n, 64))), Typ("UntypedInt"))
     : n \in ShiftCounts}
    \cup {Object(IntValue(TypeMapOf[Typ("Uint")], NatBits(n, 64)), Typ("Uint"))
          : n \in ShiftCounts}
    \cup {Object(IntValue(TypeMapOf[t], NatBits(MaxShift, 64)), t) : t \in {u \in TypedTypes : u.kind \in IntegerKinds}}

\* The left operands of a shift.
ShiftOperands ==
    UNION {ObjectsOf(t) : t \in TypedTypes} \cup UntypedInts("Int8")

\* The result types a comparison is called with.
ResultTypes == {Typ("Bool"), Typ("UntypedBool"), Named("MyBool", "Bool")}

\* The calls of a comparison: every operand pair with the result type bool,
\* and the pairs of a few types with every result type.
ComparisonCalls ==
    {<<p[1], p[2], Typ("Bool")>> : p \in OperandPairs}
    \cup UNION {{<<l, r, t>> : l \in ObjectsOf(u), r \in ObjectsOf(u)}
                : u \in {Typ("Int32"), Typ("String"), Typ("Bool")}, t \in ResultTypes}

\* The further calls of Equal: a constant on the left of a typed Object, and
\* the untyped nil with itself, with pointers and with slices.
EqualCalls ==
    UNION {{<<c, o, Typ("Bool")>> : c \in ConstantsFor(u), o \in ObjectsOf(u)}
           : u \in TypedTypes}
    \cup UNION {{<<UntypedNil, UntypedNil, t>>}
                \cup {<<UntypedNil, o, t>> : o \in ObjectsOf(Typ("Ptr")) \cup ObjectsOf(Typ("Slice"))}
                \cup {<<o, UntypedNil, t>> : o \in ObjectsOf(Typ("Ptr")) \cup ObjectsOf(Typ("Slice"))}
                : t \in ResultTypes}

\* ------------------------------------------------------------ the evaluator
\* One call of the engine: pc is "idle" before it and "done" after it; op,
\* left, right and typ are its arguments, out is how it ended; a comparison
\* that returned may become the operand of one further comparison ("nested"),
\* and a call may be made a second time ("repeated").
VARIABLES pc, typeMap, op, left, right, typ, out

vars == <<pc, typeMap, op, left, right, typ, out>>

Init ==
    /\ pc = "idle"
    /\ typeMap = TypeMapOf
    /\ op = "ILLEGAL"
    /\ left = NoObject
    /\ right = NoObject
    /\ typ = Typ("Invalid")
    /\ out = Returned(NoObject)

\* A call that stores its result in its left operand, as lv.Set(newVal) would.
BinaryInPlace(token, l, r) ==
    /\ pc' = "done"
    /\ op' = token
    /\ out' = doBinaryOp(typeMap, l, r, token)
    /\ left' = IF out'.fault = NoFault THEN out'.obj ELSE l
    /\ right' = r
    /\ typ' = Typ("Invalid")
    /\ UNCHANGED typeMap

\* evaluateBinary: doBinaryOp(env, l, r, token).
Binary(token, l, r) ==
    /\ pc' = "done"
    /\ op' = token
    /\ left' = l
    /\ right' = r
    /\ typ' = Typ("Invalid")
    /\ out' = doBinaryOp(typeMap, l, r, token)
    /\ UNCHANGED typeMap

\* evaluateComparison: doBinaryComparisonOp(env, l, r, token, t).
Comparison(token, l, r, t) ==
    /\ pc' = "done"
    /\ op' = token
    /\ left' = l
    /\ right' = r
    /\ typ' = t
    /\ out' = doBinaryComparisonOp(typeMap, l, r, token, t)
    /\ UNCHANGED typeMap

Add ==
    /\ pc = "idle"
    /\ \E p \in OperandPairs : Binary("ADD", p[1], p[2])

Subtract ==
    /\ pc = "idle"
    /\ \E p \in OperandPairs : Binary("SUB", p[1], p[2])

Multiply ==
    /\ pc = "idle"
    /\ \E p \in OperandPairs : Binary("MUL", p[1], p[2])

\* Complex division by the complex zero is left out of the operands.
Quotient ==
    /\ pc = "idle"
    /\ \E p \in OperandPairs :
        /\ ~(p[2].Typ.kind \in ComplexKinds /\ p[2].Value.v = ZeroOf("Complex128"))
        /\ Binary("QUO", p[1], p[2])

Remainder ==
    /\ pc = "idle"
    /\ \E p \in OperandPairs : Binary("REM", p[1], p[2])

And ==
    /\ pc = "idle"
    /\ \E p \in OperandPairs : Binary("AND", p[1], p[2])

Or ==
    /\ pc = "idle"
    /\ \E p \in OperandPairs : Binary("OR", p[1], p[2])

Xor ==
    /\ pc = "idle"
    /\ \E p \in OperandPairs : Binary("XOR", p[1], p[2])

AndNot ==
    /\ pc = "idle"
    /\ \E p \in OperandPairs : Binary("AND_NOT", p[1], p[2])

ShiftRight ==
    /\ pc = "idle"
    /\ \E l \in ShiftOperands, r \in CountObjects : Binary("SHR", l, r)

ShiftLeft ==
    /\ pc = "idle"
    /\ \E l \in ShiftOperands, r \in CountObjects : Binary("SHL", l, r)

Less ==
    /\ pc = "idle"
    /\ \E c \in ComparisonCalls : Comparison("LSS", c[1], c[2], c[3])

Greater ==
    /\ pc = "idle"
    /\ \E c \in ComparisonCalls : Comparison("GTR", c[1], c[2], c[3])

LessEqual ==
    /\ pc = "idle"
    /\ \E c \in ComparisonCalls : Comparison("LEQ", c[1], c[2], c[3])

GreaterEqual ==
    /\ pc = "idle"
    /\ \E c \in ComparisonCalls : Comparison("GEQ", c[1], c[2], c[3])

Equal ==
    /\ pc = "idle"
    /\ \E c \in ComparisonCalls \cup EqualCalls :
          Comparison("EQL", c[1], c[2], c[3])

\* A token the dispatch has no case for.
NotImplemented ==
    /\ pc = "idle"
    /\ \E token \in {"NEQ", "LAND", "LOR"}, p \in ObjectsOf(Typ("Bool")) \X ObjectsOf(Typ("Bool")) :
          \/ Binary(token, p[1], p[2])
          \/ Comparison(token, p[1], p[2], Typ("Bool"))

\* getTypedObject(obj), called on a typed Object, on an untyped constant or on
\* the untyped nil.  What Value the interpreter gives the untyped nil is not
\* in this file: it is an operand both with a Value that is no exact.Value
\* and with one that is.
Normalize ==
    /\ pc = "idle"
    /\ \E obj \in UNION {ObjectsOf(t) : t \in TypedTypes}
                    \cup UNION {UntypedInts(k) : k \in IntegerKinds}
                    \cup UntypedOthers
                    \cup {UntypedNil, Object(EValue("Unknown", 0), Typ("UntypedNil"))} :
          /\ pc' = "done"
          /\ op' = "getTypedObject"
          /\ left' = obj
          /\ right' = NoObject
          /\ typ' = Typ("Invalid")
          /\ out' = getTypedObject(obj)
          /\ UNCHANGED typeMap

\* An assignment operation x op= y: the interpreter looks its token up in
\* assignOps and calls doBinaryOp with the operator found.
Assign ==
    /\ pc = "idle"
    /\ \E token \in DOMAIN assignOps, l \in ObjectsOf(Typ("Uint")), r \in ObjectsOf(Typ("Uint")) :
          /\ pc' = "done"
          /\ op' = token
          /\ left' = l
          /\ right' = r
          /\ typ' = Typ("Invalid")
          /\ out' = doBinaryOp(typeMap, l, r, assignOps[token])
          /\ UNCHANGED typeMap

\* The call that ended is made once more, on the operand Objects as the
\* first call left them (calls on left operands of a few Kinds are repeated).
Repeat ==
    /\ pc = "done"
    /\ left.Typ.kind \in {"Int16", "String", "Bool", "Ptr", "UntypedFloat", "UntypedNil"}
    /\ pc' = "repeated"
    /\ out' = IF op = "getTypedObject" THEN getTypedObject(left)
              ELSE IF typ # Typ("Invalid")
                   THEN doBinaryComparisonOp(typeMap, left, right, op, typ)
              ELSE doBinaryOp(typeMap, left, right,
                              IF op \in DOMAIN assignOps THEN assignOps[op] ELSE op)
    /\ UNCHANGED <<typeMap, op, left, right, typ>>

\* The Object a comparison returned is compared with itself by a later call.
Nested ==
    /\ pc = "done"
    /\ op \in {"LSS", "GTR", "LEQ", "GEQ", "EQL"}
    /\ out.fault = NoFault
    /\ pc' = "nested"
    /\ op' = "EQL"
    /\ left' = out.obj
    /\ right' = out.obj
    /\ typ' = Typ("Bool")
    /\ out' = doBinaryComparisonOp(typeMap, out.obj, out.obj, "EQL", Typ("Bool"))
    /\ UNCHANGED typeMap

Next ==
    \/ NotImplemented \/ Normalize \/ Assign
    \/ Less \/ Greater \/ LessEqual \/ GreaterEqual \/ Equal
    \/ ShiftRight \/ ShiftLeft
    \/ Add \/ Quotient \/ Remainder \/ Subtract \/ Multiply
    \/ And \/ Or \/ Xor \/ AndNot
    \/ Repeat \/ Nested

Spec == Init /\ [][Next]_vars

\* ============================================================== properties
\* The numbers of the properties are independent of the model above: an
\* unsigned number of up to 90 bits is three digits of 30 bits.
RECURSIVE DigitOf(_, _, _)
\* The number of the bits i .. i+n-1 of x (bits past the end are 0).
DigitOf(x, i, n) ==
    IF n = 0 THEN 0
    ELSE (IF i <= Len(x) THEN x[i] ELSE 0) + 2 * DigitOf(x, i + 1, n - 1)

\* The unsigned number of the bits x.
Number(x) == <<DigitOf(x, 1, 30), DigitOf(x, 31, 30), DigitOf(x, 61, 30)>>

\* a + b, exactly.
NumberSum(a, b) ==
    LET s1 == a[1] + b[1]
        s2 == a[2] + b[2] + s1 \div (2 ^ (30))
        s3 == a[3] + b[3] + s2 \div (2 ^ (30))
    IN  <<s1 % (2 ^ (30)), s2 % (2 ^ (30)), s3>>

\* a mod 2^w.
NumberMod(a, w) ==
    [j \in 1..3 |-> IF 30 * (j - 1) >= w THEN 0
                    ELSE IF 30 * j <= w THEN a[j]
                    ELSE a[j] % (2 ^ (w - 30 * (j - 1)))]

\* The 64 bit pattern x is a value of the integer Kind k: the sign extension
\* (signed) or zero extension (unsigned) of its Width(k) low bits.
InKind(k, x) ==
    /\ Len(x) = 64
    /\ \A i \in (Width(k) + 1)..64 : x[i] = (IF k \in SignedKinds THEN x[Width(k)] ELSE 0)

\* A call has ended and returned an Object.
Done(token) == pc = "done" /\ op = token

ReturnedObject == out.fault = NoFault

\* Both operands are typed Objects of one integer type.
SameIntegerType ==
    /\ left.Typ = right.Typ
    /\ isTyped(left.Typ)
    /\ left.Typ.kind \in IntegerKinds

\* C1: for every integer Kind K of width W and all a, b in K, Add(K(a), K(b))
\* returns the value of K that is (a + b) mod 2^W: two's complement
\* wraparound at K's own width.
C1_AddWraps ==
    (Done("ADD") /\ SameIntegerType) =>
        LET k == left.Typ.kind
            w == Width(k)
            r == out.obj.Value
        IN  /\ ReturnedObject
            /\ out.obj.Typ = left.Typ
            /\ KindOf(r) = k
            /\ InKind(k, r.v)
            /\ Number(Truncate(r.v, w)) =
                   NumberMod(NumberSum(Number(Truncate(left.Value.v, w)),
                                       Number(Truncate(right.Value.v, w))), w)

\* Add(Int8(120), Int8(10)) = Int8(-126).
C1_Witness ==
    /\ Done("ADD")
    /\ left = Object(IntValue(Typ("Int8"), NatBits(120, 64)), Typ("Int8"))
    /\ right = Object(IntValue(Typ("Int8"), NatBits(10, 64)), Typ("Int8"))
    /\ out = Returned(Object(IntValue(Typ("Int8"), BitNot(NatBits(125, 64))), Typ("Int8")))

\* ------------------------------------------------ operands of the claims
ArithmeticTokens == {"ADD", "SUB", "MUL", "QUO", "REM", "AND", "OR", "XOR", "AND_NOT"}

ShiftTokens == {"SHR", "SHL"}

OrderedTokens == {"LSS", "GTR", "LEQ", "GEQ"}

\* obj is a typed Object of an integer Kind.
TypedInteger(obj) ==
    isTyped(obj.Typ) /\ obj.Typ.kind \in IntegerKinds /\ obj.Value.rep = "reflect"

\* obj is an untyped integer constant.
UntypedInteger(obj) == obj.Typ = Typ("UntypedInt") /\ obj.Value.rep = "exact"

\* K(c): the Object of the type of obj that holds the constant c.
AsTyped(c, obj) == Object(IntValue(obj.Value.rtype, Int64Val(c.Value.v)), obj.Typ)

\* The constant c is representable in the Kind of obj.
Representable(c, obj) == ExactOf(obj.Typ.kind, AsTyped(c, obj).Value.v) = c.Value.v

\* The call of the state, made on the operands l and r.
Again(l, r) ==
    IF op \in OrderedTokens \cup {"EQL"} THEN doBinaryComparisonOp(typeMap, l, r, op, typ)
    ELSE doBinaryOp(typeMap, l, r, op)

\* C2: for every operator that normalizes both operands, every integer Kind
\* K, a in K and untyped integer constant c representable in K (c # 0 for
\* Quotient and Remainder), op(K(a), UntypedInt(c)) ends without a fault and
\* returns what op(K(a), K(c)) returns.
C2_UntypedConstant ==
    (/\ pc = "done"
     /\ op \in ArithmeticTokens \cup OrderedTokens
     /\ TypedInteger(left)
     /\ UntypedInteger(right)
     /\ Representable(right, left)
     /\ (op \in {"QUO", "REM"} => ~IsZero(right.Value.v.mag)))
    =>  /\ ReturnedObject
        /\ out = Again(left, AsTyped(right, left))

\* C3: for every integer Kind and dividend a, Quotient(a, 0) and
\* Remainder(a, 0) return no Object and end in the division-by-zero fault, a
\* panic the caller can recover, whose value (a runtime.Error) differs from
\* the value (a string) of the panic for an operand Kind without a case, and
\* which does not end the process.
C3_DivideByZero ==
    /\ (pc = "done" /\ op \in {"QUO", "REM"} /\ SameIntegerType /\ IsZero(right.Value.v))
       => /\ out.obj = NoObject
          /\ out.fault.how = "panic"
          /\ out.fault.val = "runtime.Error"
    /\ (/\ pc = "done" /\ op \in {"QUO", "REM"}
        /\ left.Typ = right.Typ /\ isTyped(left.Typ)
        /\ left.Typ.kind \in {"Bool", "String", "Ptr", "Slice"}
              \cup (IF op = "REM" THEN FloatKinds \cup ComplexKinds ELSE {}))
       => /\ out.obj = NoObject
          /\ out.fault.how = "panic"
          /\ out.fault.val = "string"

\* Quotient(Int(1), Int(0)) panics with the run-time error.
C3_Witness ==
    /\ Done("QUO")
    /\ left = Object(IntValue(Typ("Int"), NatBits(1, 64)), Typ("Int"))
    /\ right = Object(IntValue(Typ("Int"), NatBits(0, 64)), Typ("Int"))
    /\ out = Faulted(Panic("runtime.Error", "integer divide by zero"))

\* A count the shift operators read: a non-negative untyped integer constant
\* or a typed unsigned integer.
ValidCount(c) ==
    \/ UntypedInteger(c) /\ ~c.Value.v.neg
    \/ TypedInteger(c) /\ c.Typ.kind \in UnsignedKinds

\* C4: ShiftLeft and ShiftRight are defined for every integer Kind of the
\* left operand: for each such Kind and any valid count they return an
\* Object of the left operand's type (and so never raise the 'invalid
\* operands to shift' fault).
C4_ShiftsDefined ==
    (/\ pc = "done"
     /\ op \in ShiftTokens
     /\ TypedInteger(left)
     /\ ValidCount(right))
    =>  /\ ReturnedObject
        /\ out.obj.Typ = left.Typ

\* The untyped integer constant with the value of the typed count c >= 0.
UntypedCount(c) == Object(EValue("Int", ExactInt(FALSE, c.Value.v)), Typ("UntypedInt"))

\* C5: the result of a shift depends only on the number n >= 0 of the count,
\* not on its representation: a typed count of any unsigned or signed Kind
\* gives what the untyped integer constant n gives.
C5_CountRepresentation ==
    (/\ pc = "done"
     /\ op \in ShiftTokens
     /\ TypedInteger(left)
     /\ TypedInteger(right)
     /\ (right.Typ.kind \in SignedKinds => right.Value.v[64] = 0))
    =>  out = doBinaryOp(typeMap, left, UntypedCount(right), op)

\* C6: every arithmetic, bitwise and shift operator that returns a result
\* returns an Object whose type is the normalized left operand's type (a
\* named type stays that named type) and whose Value is of the reflect.Type,
\* hence of the Kind, that the registry holds for that type.
C6_ResultType ==
    (/\ pc = "done"
     /\ op \in ArithmeticTokens \cup ShiftTokens
     /\ ReturnedObject)
    =>  LET newTyp == IF isTyped(left.Typ) THEN left.Typ
                      ELSE Typ(IF left.Typ.kind = "UntypedInt" THEN "Int"
                               ELSE IF left.Typ.kind = "UntypedRune" THEN "Int32"
                               ELSE IF left.Typ.kind = "UntypedFloat" THEN "Float64"
                               ELSE IF left.Typ.kind = "UntypedComplex" THEN "Complex128"
                               ELSE IF left.Typ.kind = "UntypedString" THEN "String"
                               ELSE "Bool")
        IN  /\ out.obj.Typ = newTyp
            /\ out.obj.Value.rep = "reflect"
            /\ newTyp \in DOMAIN typeMap
            /\ out.obj.Value.rtype = typeMap[newTyp]
            /\ KindOf(out.obj.Value) = typeMap[newTyp].kind

\* Multiply on two operands of the named type MyInt8 returns a MyInt8.
C6_Witness ==
    /\ Done("MUL")
    /\ left.Typ = Named("MyInt8", "Int8")
    /\ right.Typ = Named("MyInt8", "Int8")
    /\ ReturnedObject
    /\ out.obj.Typ = Named("MyInt8", "Int8")
    /\ out.obj.Value.rtype = typeMap[Named("MyInt8", "Int8")]

\* The call of the state is a comparison.
ComparisonDone == pc = "done" /\ op \in OrderedTokens \cup {"EQL"}

\* C7: when the result type of a comparison is a named type whose underlying
\* Kind is Bool, the Object returned has that named type, and its Value is a
\* Value of the reflect.Type of that type holding the outcome of the
\* comparison (the bool the same comparison gives with the result type bool).
C7_NamedResult ==
    (/\ ComparisonDone
     /\ isNamed(typ) /\ typ.kind = "Bool"
     /\ doBinaryComparisonOp(typeMap, left, right, op, Typ("Bool")).fault = NoFault)
    =>  /\ ReturnedObject
        /\ out.obj.Typ = typ
        /\ out.obj.Typ # Typ("Bool")
        /\ out.obj.Value.rep = "reflect"
        /\ out.obj.Value.rtype = typeMap[typ]
        /\ out.obj.Value.v \in BOOLEAN
        /\ out.obj.Value.v =
              doBinaryComparisonOp(typeMap, left, right, op, Typ("Bool")).obj.Value.v

\* Less(Int32(0), Int32(1)) with the result type MyBool is MyBool(true).
C7_Witness ==
    /\ Done("LSS")
    /\ typ = Named("MyBool", "Bool")
    /\ left = Object(IntValue(Typ("Int32"), NatBits(0, 64)), Typ("Int32"))
    /\ right = Object(IntValue(Typ("Int32"), NatBits(1, 64)), Typ("Int32"))
    /\ out = Returned(Object(RValue(typeMap[Named("MyBool", "Bool")], TRUE),
                             Named("MyBool", "Bool")))

\* C8: when the result type of a comparison is not a named type (it is bool
\* or untyped bool), the Object returned is a plain Bool Object: its type is
\* the basic type bool and its Value is a Bool, so it is a typed Object that
\* a later call of the engine accepts as an operand.
C8_PlainResult ==
    /\ (ComparisonDone /\ ~isNamed(typ) /\ ReturnedObject)
       => /\ out.obj.Typ = Typ("Bool")
          /\ out.obj.Value.rep = "reflect"
          /\ KindOf(out.obj.Value) = "Bool"
    /\ (pc = "nested" /\ ~isNamed(left.Typ)) => ReturnedObject

\* C9: Equal handles the untyped nil in either position without normalizing
\* it: Equal(nil, nil) is true, and Equal(nil, x), Equal(x, nil) for a pointer
\* or slice x are true exactly when x is nil.
C9_UntypedNil ==
    (/\ Done("EQL")
     /\ (left = UntypedNil \/ right = UntypedNil)
     /\ (left = UntypedNil \/ left.Typ.kind \in {"Ptr", "Slice"})
     /\ (right = UntypedNil \/ right.Typ.kind \in {"Ptr", "Slice"}))
    =>  /\ ReturnedObject
        /\ out.obj.Value.v =
              ((left = UntypedNil \/ left.Value.v = 0) /\ (right = UntypedNil \/ right.Value.v = 0))

\* Equal(nil, p) is true for the nil pointer p.
C9_Witness ==
    /\ Done("EQL")
    /\ left = UntypedNil
    /\ right = Object(RValue(typeMap[Typ("Ptr")], 0), Typ("Ptr"))
    /\ typ = Typ("Bool")
    /\ out = Returned(Object(ValueOf("Bool", TRUE), Typ("Bool")))

\* C10: for every integer Kind K, x in K and untyped integer constant c
\* representable in K, Equal(UntypedInt(c), K(x)) and Equal(K(x),
\* UntypedInt(c)) return true exactly when c = x.
C10_ConstantEqual ==
    /\ (Done("EQL") /\ UntypedInteger(left) /\ TypedInteger(right) /\ Representable(left, right))
       => /\ ReturnedObject
          /\ out.obj.Value.v = (left.Value.v = ExactOf(right.Typ.kind, right.Value.v))
    /\ (Done("EQL") /\ TypedInteger(left) /\ UntypedInteger(right) /\ Representable(right, left))
       => /\ ReturnedObject
          /\ out.obj.Value.v = (right.Value.v = ExactOf(left.Typ.kind, left.Value.v))

\* Equal(UntypedInt(5), Int64(5)) is true.
C10_Witness ==
    /\ Done("EQL")
    /\ left = Object(EValue("Int", ExactInt(FALSE, NatBits(5, 64))), Typ("UntypedInt"))
    /\ right = Object(IntValue(Typ("Int64"), NatBits(5, 64)), Typ("Int64"))
    /\ out = Returned(Object(ValueOf("Bool", TRUE), Typ("Bool")))

\* The default type of the constants of an untyped Kind.
DefaultKind(k) ==
    CASE k = "UntypedBool" -> "Bool"
      [] k = "UntypedInt" -> "Int"
      [] k = "UntypedFloat" -> "Float64"
      [] k = "UntypedComplex" -> "Complex128"
      [] k = "UntypedRune" -> "Int32"
      [] k = "UntypedString" -> "String"

\* The 64 bit pattern x of the integer Kind k is the number of the exact
\* integer constant c: c itself, or the pattern that added to -c gives 2^64.
HoldsConstant(k, x, c) ==
    /\ InKind(k, x)
    /\ IF c.neg /\ ~IsZero(c.mag)
       THEN /\ k \in SignedKinds
            /\ x[64] = 1
            /\ NumberMod(NumberSum(Number(x), Number(c.mag)), 64) = <<0, 0, 0>>
       ELSE x = c.mag /\ (k \in SignedKinds => x[64] = 0)

\* The exact integer constant c is a number of the integer Kind k.
FitsKind(k, c) ==
    LET w == Width(k)
    IN  IF c.neg /\ ~IsZero(c.mag)
        THEN /\ k \in SignedKinds
             /\ \/ \A i \in w..64 : c.mag[i] = 0
                \/ c.mag = [i \in 1..64 |-> IF i = w THEN 1 ELSE 0]
        ELSE \A i \in (IF k \in SignedKinds THEN w ELSE w + 1)..64 : c.mag[i] = 0

NormalizedKind(obj) ==
    IF isTyped(obj.Typ) THEN obj.Typ.kind
    ELSE IF obj.Typ.kind = "UntypedNil" THEN "UntypedNil"
    ELSE DefaultKind(obj.Typ.kind)

\* The operator of the token has no case for a left operand of the Kind k.
Unsupported(token, k) ==
    \/ token \in {"SUB", "MUL", "QUO"} /\ k = "String"
    \/ /\ token \in {"REM", "AND", "OR", "XOR", "AND_NOT", "SHL", "SHR"}
       /\ k \in FloatKinds \cup ComplexKinds \cup {"String", "Bool"}
    \/ token \in ArithmeticTokens /\ k = "Bool"
    \/ token \in OrderedTokens /\ k \in ComplexKinds \cup {"Bool"}

\* The call ended in a fault and returned no Object.
Aborted == out.obj = NoObject /\ out.fault.how \in {"panic", "exit"}

\* C12: every internal-consistency condition ends the call in a fault and
\* returns no Object: a left operand whose Kind the operator has no case for
\* (Subtract, Multiply, Quotient on String; Remainder, the bitwise operators
\* and the shifts on a float, complex, string or bool; any arithmetic on
\* Bool; an ordered comparison on Bool or complex), the untyped nil reaching
\* getTypedObject, and a token the dispatch has no case for.
C12_ConsistencyFaults ==
    /\ (pc = "done" /\ op \in ArithmeticTokens \cup ShiftTokens \cup OrderedTokens
            /\ Unsupported(op, NormalizedKind(left)))
       => Aborted
    /\ (Done("getTypedObject") /\ left.Typ.kind = "UntypedNil") => Aborted
    /\ (pc = "done" /\ op \in ArithmeticTokens \cup OrderedTokens
            /\ "UntypedNil" \in {left.Typ.kind, right.Typ.kind})
       => Aborted
    /\ (pc = "done" /\ op \in {"NEQ", "LAND", "LOR"})
       => Aborted /\ out.fault.how = "exit"

\* Subtract on two strings panics with the type error; a token without a
\* case ends the process.
C12_Witness ==
    \/ /\ Done("SUB")
       /\ left = Object(RValue(typeMap[Typ("String")], <<97, 98, 99>>), Typ("String"))
       /\ right = left
       /\ out = Faulted(Panic("string", "Type error: Invalid operands to subtraction"))
    \/ /\ Done("LAND")
       /\ out.fault.how = "exit"

IntOf(k, x) ==
    DigitOf(x, 1, Width(k))
      - (IF k \in SignedKinds /\ x[Width(k)] = 1 THEN 2 ^ Width(k) ELSE 0)

\* floor(v / 2^n) for a number v of at most 16 bits.
FloorShift(v, n) == IF n <= 30 THEN v \div (2 ^ n) ELSE IF v < 0 THEN -1 ELSE 0

\* The number of a valid count (the counts of the model are below 2^30).
CountOf(c) ==
    DigitOf(IF c.Value.rep = "exact" THEN c.Value.v.mag ELSE c.Value.v, 1, 30)

\* C14: for a left operand x of a signed integer Kind of width W and every
\* count n >= 0, also n >= W, ShiftRight(x, n) is the arithmetic shift
\* floor(x / 2^n): the bits of x moved down by n with the sign bit filled in,
\* so a negative x stays negative; for an unsigned Kind it is the logical
\* shift floor(x / 2^n), with zeros filled in.
C14_ShiftRight ==
    (Done("SHR") /\ TypedInteger(left) /\ ValidCount(right)) =>
        LET k == left.Typ.kind
            w == Width(k)
            x == left.Value.v
            n == CountOf(right)
            r == out.obj.Value.v
        IN  /\ ReturnedObject
            /\ out.obj.Typ = left.Typ
            /\ InKind(k, r)
            /\ \A i \in 1..w :
                  r[i] = IF i + n <= w THEN x[i + n]
                         ELSE IF k \in SignedKinds THEN x[w] ELSE 0
            /\ w <= 16 => IntOf(k, r) = FloorShift(IntOf(k, x), n)
            /\ (k \in SignedKinds /\ x[w] = 1) => r[w] = 1

\* ShiftRight(Int8(-8), Uint(1)) = Int8(-4).
C14_Witness ==
    /\ Done("SHR")
    /\ left = Object(IntValue(Typ("Int8"), BitNot(NatBits(7, 64))), Typ("Int8"))
    /\ right = Object(IntValue(Typ("Uint"), NatBits(1, 64)), Typ("Uint"))
    /\ out = Returned(Object(IntValue(Typ("Int8"), BitNot(NatBits(3, 64))), Typ("Int8")))

\* ShiftRight(Uint8(248), Uint(1)) = Uint8(124).
C14_WitnessUnsigned ==
    /\ Done("SHR")
    /\ left = Object(IntValue(Typ("Uint8"), NatBits(248, 64)), Typ("Uint8"))
    /\ right = Object(IntValue(Typ("Uint"), NatBits(1, 64)), Typ("Uint"))
    /\ out = Returned(Object(IntValue(Typ("Uint8"), NatBits(124, 64)), Typ("Uint8")))

RECURSIVE TopDifference(_, _, _)
\* The highest of the bits 1..i in which a and b differ, 0 when none does.
TopDifference(a, b, i) ==
    IF i = 0 THEN 0
    ELSE IF a[i] # b[i] THEN i
    ELSE TopDifference(a, b, i - 1)

\* a < b for the values a and b of the integer Kind k whose highest differing
\* bit is m > 0, in the signedness of k: the number with a 0 there is the
\* smaller one, unless the bit is the sign bit of a signed Kind.
Below(k, a, b, m) ==
    IF k \in SignedKinds /\ m = Width(k) THEN a[m] = 1 ELSE b[m] = 1

\* The bool a comparison of the operands of the state returns.
Outcome(token) == doBinaryComparisonOp(typeMap, left, right, token, typ).obj.Value.v

\* C15: for every integer Kind K and a, b in K each comparison operator
\* returns the bool of the numeric order of a and b in the signedness of K;
\* exactly one of Less, Equal, Greater is true, LessEqual is the negation of
\* Greater and GreaterEqual the negation of Less.
C15_IntegerOrder ==
    (ComparisonDone /\ SameIntegerType) =>
        LET k == left.Typ.kind
            a == left.Value.v
            b == right.Value.v
            m == TopDifference(a, b, Width(k))
            eq == m = 0
            lt == m > 0 /\ Below(k, a, b, m)
            gt == m > 0 /\ Below(k, b, a, m)
        IN  /\ ReturnedObject
            /\ out.obj.Value.v \in BOOLEAN
            /\ out.obj.Value.v = (CASE op = "LSS" -> lt
                                    [] op = "GTR" -> gt
                                    [] op = "LEQ" -> ~gt
                                    [] op = "GEQ" -> ~lt
                                    [] op = "EQL" -> eq)
            /\ op = "LSS" =>
                  LET less == out.obj.Value.v
                      equal == Outcome("EQL")
                      greater == Outcome("GTR")
                  IN  /\ \/ less /\ ~equal /\ ~greater
                         \/ ~less /\ equal /\ ~greater
                         \/ ~less /\ ~equal /\ greater
                      /\ Outcome("LEQ") = ~greater
                      /\ Outcome("GEQ") = ~less

\* Less(Int8(-1), Int8(1)) is true.
C15_Witness ==
    /\ Done("LSS")
    /\ left = Object(IntValue(Typ("Int8"), BitNot(NatBits(0, 64))), Typ("Int8"))
    /\ right = Object(IntValue(Typ("Int8"), NatBits(1, 64)), Typ("Int8"))
    /\ typ = Typ("Bool")
    /\ out = Returned(Object(ValueOf("Bool", TRUE), Typ("Bool")))

\* Less(Uint8(248), Uint8(1)) is false.
C15_WitnessUnsigned ==
    /\ Done("LSS")
    /\ left = Object(IntValue(Typ("Uint8"), NatBits(248, 64)), Typ("Uint8"))
    /\ right = Object(IntValue(Typ("Uint8"), NatBits(1, 64)), Typ("Uint8"))
    /\ typ = Typ("Bool")
    /\ out = Returned(Object(ValueOf("Bool", FALSE), Typ("Bool")))

\* a / b truncated toward zero, for numbers a and b # 0.
TruncatedQuotient(a, b) ==
    LET m == (IF a < 0 THEN -a ELSE a) \div (IF b < 0 THEN -b ELSE b)
    IN  IF (a < 0) # (b < 0) THEN -m ELSE m

\* The number n wrapped into the integer Kind k of at most 16 bits.
Wrapped(k, n) ==
    LET m == n % (2 ^ Width(k))
    IN  IF k \in SignedKinds /\ m >= 2 ^ (Width(k) - 1) THEN m - 2 ^ Width(k) ELSE m

\* C16: for every integer Kind K of width W and a, b in K with b # 0,
\* Quotient(a, b) and Remainder(a, b) return without a fault, the quotient
\* truncated toward zero and a remainder that is 0 or has the sign of a, and
\* Add(Multiply(Quotient(a, b), b), Remainder(a, b)) = a at the width W; for
\* the least a of a signed K and b = -1 the quotient is that least value and
\* the remainder is 0.
C16_QuotientRemainder ==
    (pc = "done" /\ op \in {"QUO", "REM"} /\ SameIntegerType /\ ~IsZero(right.Value.v)) =>
        LET k == left.Typ.kind
            w == Width(k)
            a == left.Value.v
            b == right.Value.v
            quo == out
            rem == doBinaryOp(typeMap, left, right, "REM")
            q == quo.obj.Value.v
            r == rem.obj.Value.v
        IN  /\ ReturnedObject
            /\ op = "QUO" =>
                  /\ rem.fault = NoFault
                  /\ InKind(k, q) /\ InKind(k, r)
                  /\ doBinaryOp(typeMap, doBinaryOp(typeMap, quo.obj, right, "MUL").obj,
                                rem.obj, "ADD") = Returned(left)
                  /\ IsZero(r) \/ (k \in SignedKinds /\ r[w] = a[w]) \/ (k \in UnsignedKinds)
                  /\ k \in SignedKinds =>
                        \/ IsZero(q)
                        \/ q[w] = (IF a[w] # b[w] THEN 1 ELSE 0)
                        \/ b = BitNot(NatBits(0, 64))
                  /\ w <= 16 =>
                        /\ IntOf(k, q) = Wrapped(k, TruncatedQuotient(IntOf(k, a), IntOf(k, b)))
                        /\ IntOf(k, r) = IntOf(k, a)
                              - TruncatedQuotient(IntOf(k, a), IntOf(k, b)) * IntOf(k, b)
                  /\ (/\ k \in SignedKinds
                      /\ a = [i \in 1..64 |-> IF i < w THEN 0 ELSE 1]
                      /\ b = BitNot(NatBits(0, 64)))
                     => q = a /\ IsZero(r)

\* Quotient(Int64(-2^63), Int64(-1)) returns -2^63.
C16_Witness ==
    /\ Done("QUO")
    /\ left = Object(IntValue(Typ("Int64"), [i \in 1..64 |-> IF i < 64 THEN 0 ELSE 1]), Typ("Int64"))
    /\ right = Object(IntValue(Typ("Int64"), BitNot(NatBits(0, 64))), Typ("Int64"))
    /\ out = Returned(left)

\* Remainder(Int8(-8), Int8(10)) = Int8(-8).
C16_WitnessRemainder ==
    /\ Done("REM")
    /\ left = Object(IntValue(Typ("Int8"), BitNot(NatBits(7, 64))), Typ("Int8"))
    /\ right = Object(IntValue(Typ("Int8"), NatBits(10, 64)), Typ("Int8"))
    /\ out = Returned(left)

\* The eleven assignment operations and the operator of each.
BaseOperators ==
    {<<"ADD_ASSIGN", "ADD">>, <<"SUB_ASSIGN", "SUB">>, <<"MUL_ASSIGN", "MUL">>,
     <<"QUO_ASSIGN", "QUO">>, <<"REM_ASSIGN", "REM">>, <<"AND_ASSIGN", "AND">>,
     <<"AND_NOT_ASSIGN", "AND_NOT">>, <<"OR_ASSIGN", "OR">>, <<"SHL_ASSIGN", "SHL">>,
     <<"SHR_ASSIGN", "SHR">>, <<"XOR_ASSIGN", "XOR">>}

\* C17: assignOps maps each of the eleven assignment tokens to its own
\* operator, no two to the same one, and doBinaryOp has a case for every
\* operator it gives: an assignment operation looked up in assignOps and
\* passed to doBinaryOp never ends in 'Binary operator not implemented yet'.
C17_AssignOpsClosed ==
    /\ DOMAIN assignOps = {p[1] : p \in BaseOperators}
    /\ Cardinality(DOMAIN assignOps) = 11
    /\ \A p \in BaseOperators : assignOps[p[1]] = p[2]
    /\ Cardinality({assignOps[t] : t \in DOMAIN assignOps}) = 11
    /\ {assignOps[t] : t \in DOMAIN assignOps} \subseteq ArithmeticTokens \cup ShiftTokens
    /\ (pc = "done" /\ op \in DOMAIN assignOps)
       => /\ out.fault.how # "exit"
          /\ out.fault.msg # "Binary operator not implemented yet"
          /\ out = doBinaryOp(typeMap, left, right, assignOps[op])

\* x <<= 1 on the uint 1 returned 2, x &^= 1 returned 0.
C17_Witness ==
    /\ pc = "done"
    /\ left = Object(IntValue(Typ("Uint"), NatBits(1, 64)), Typ("Uint"))
    /\ right = left
    /\ \/ op = "SHL_ASSIGN"
            /\ out = Returned(Object(IntValue(Typ("Uint"), NatBits(2, 64)), Typ("Uint")))
       \/ op = "AND_NOT_ASSIGN"
            /\ out = Returned(Object(IntValue(Typ("Uint"), NatBits(0, 64)), Typ("Uint")))

====
